---- MODULE Spec2Model ----
(***************************************************************************)
(* Model of src/main.py: ConfigLegacyFeatureDeprecator and main().         *)
(*                                                                         *)
(* Python text is a sequence of one-character strings, so that paths are   *)
(* really concatenated and rendered.  A Python value is a tagged record:   *)
(* None, bool, int, str, list (a sequence of values) and dict (a sequence  *)
(* of key/value entries in insertion order, keys pairwise distinct).  A    *)
(* mapping key is a str, the only kind of key a JSON document has.         *)
(* The config_type argument, the one text the program lowers, is a         *)
(* sequence of Unicode code points.                                        *)
(***************************************************************************)
EXTENDS Integers, Sequences, FiniteSets

VARIABLES
    entry,                    \* "main": the command line; "api": the class used directly
    pc,                       \* position of the invocation
    config_file,              \* the file named by --config-file
    config_type,              \* the config_type argument as given
    deprecated_features_file, \* the file named by --deprecated-features-file
    deprecated_features,      \* self.deprecated_features
    config_data,              \* self.config_data
    scans,                    \* outcome of each direct find_deprecated_features(self.config_data)
    results,                  \* what each run() so far returned (or that it raised)
    exit_code,                \* the process exit status, meaningful once pc is terminal
    log,                      \* the records handed to logging, in order
    matcher_calls             \* top-level calls of find_deprecated_features so far

vars == <<entry, pc, config_file, config_type, deprecated_features_file,
          deprecated_features, config_data, scans, results, exit_code, log,
          matcher_calls>>

---------------------------------------------------------------------------
(* Bounds of the model *)

\* nodes (containers and scalars) of an enumerated configuration tree
MaxNodes == 4
\* run() calls on one constructed object
MaxRuns == 2
\* direct find_deprecated_features calls on one constructed object
MaxScans == 2

---------------------------------------------------------------------------
(* Python values *)

PyNone == [tag |-> "none"]
PyBool(b) == [tag |-> "bool", b |-> b]
PyInt(n) == [tag |-> "int", n |-> n]
PyStr(s) == [tag |-> "str", s |-> s]
PyList(items) == [tag |-> "list", items |-> items]
PyDict(entries) == [tag |-> "dict", entries |-> entries]

\* bool(v), as used by `not self.config_data`, `if path`, `if deprecated_features_found`
Truthy(v) ==
    CASE v.tag = "none" -> FALSE
      [] v.tag = "bool" -> v.b
      [] v.tag = "int" -> v.n # 0
      [] v.tag = "str" -> v.s # <<>>
      [] v.tag = "list" -> v.items # <<>>
      [] v.tag = "dict" -> v.entries # <<>>

Digit(d) ==
    CASE d = 0 -> "0" [] d = 1 -> "1" [] d = 2 -> "2" [] d = 3 -> "3" [] d = 4 -> "4"
      [] d = 5 -> "5" [] d = 6 -> "6" [] d = 7 -> "7" [] d = 8 -> "8" [] d = 9 -> "9"

\* str(i) of a non-negative int, as the f-string renders {i}
RECURSIVE IntToStr(_)
IntToStr(i) == IF i < 10 THEN <<Digit(i)>> ELSE IntToStr(i \div 10) \o <<Digit(i % 10)>>

\* `k in s` for two str: k occurs in s as a substring
IsSubstring(k, s) ==
    \E i \in 0..(Len(s) - Len(k)) : SubSeq(s, i + 1, i + Len(k)) = k

\* `key in table` for a str key: "True", "False", or the TypeError Python raises
Contains(table, key) ==
    CASE table.tag = "dict" ->
           IF \E i \in 1..Len(table.entries) : table.entries[i].key = key
           THEN "True" ELSE "False"
      [] table.tag = "list" ->
           IF \E i \in 1..Len(table.items) :
                  table.items[i].tag = "str" /\ table.items[i].s = key
           THEN "True" ELSE "False"
      [] table.tag = "str" -> IF IsSubstring(key, table.s) THEN "True" ELSE "False"
      [] OTHER -> "TypeError"

\* `table[key]` for a dict that holds the key
GetItem(table, key) ==
    LET i == CHOOSE j \in 1..Len(table.entries) : table.entries[j].key = key
    IN table.entries[i].value

\* `table[key]` with a str key raises TypeError on a list or a str
GetItemRaises(table) == table.tag # "dict"

Returned(v) == [status |-> "returned", value |-> v]
Raised(e) == [status |-> "raised", error |-> e]

---------------------------------------------------------------------------
(* The Matcher: find_deprecated_features *)

RECURSIVE find_deprecated_features(_, _, _)
RECURSIVE DictLoop(_, _, _, _, _)
RECURSIVE ListLoop(_, _, _, _, _)

\* mutant of KeyPath: the separator is written even at the root
KeyPathAlwaysDotted(path, key) == path \o <<".">> \o key

\* mutant of KeyPath: the separator is never written
KeyPathNoSeparator(path, key) == path \o key

\* the path of a mapping entry: f"{path}.{key}" if path else key
KeyPath(path, key) == IF path # <<>> THEN path \o <<".">> \o key ELSE key

\* the path of a sequence element: f"{path}[{i}]"
IndexPath(path, i) == path \o <<"[">> \o IntToStr(i) \o <<"]">>

\* the record appended for a matched key
Finding(table, key, new_path) ==
    [feature |-> key, path |-> new_path, deprecation_info |-> GetItem(table, key)]

\* mutant of DictLoop: the match is appended after the value's subtree
DictLoopPostOrder(table, entries, path, i, deprecated_found) ==
    IF i > Len(entries) THEN Returned(deprecated_found)
    ELSE LET key == entries[i].key
             new_path == KeyPath(path, key)
             member == Contains(table, key)
             sub == find_deprecated_features(table, entries[i].value, new_path)
         IN IF member = "TypeError" THEN Raised("TypeError")
            ELSE IF member = "True" /\ GetItemRaises(table) THEN Raised("TypeError")
            ELSE IF sub.status = "raised" THEN sub
            ELSE DictLoop(table, entries, path, i + 1,
                          IF member = "True"
                          THEN Append(deprecated_found \o sub.value,
                                      Finding(table, key, new_path))
                          ELSE deprecated_found \o sub.value)

\* for key, value in data.items(), from the i-th entry on; deprecated_found is
\* the list built so far
DictLoop(table, entries, path, i, deprecated_found) ==
    IF i > Len(entries) THEN Returned(deprecated_found)
    ELSE LET key == entries[i].key
             value == entries[i].value
             new_path == KeyPath(path, key)
             member == Contains(table, key)
         IN IF member = "TypeError" THEN Raised("TypeError")
            ELSE IF member = "True" /\ GetItemRaises(table) THEN Raised("TypeError")
            ELSE LET appended == IF member = "True"
                                 THEN Append(deprecated_found, Finding(table, key, new_path))
                                 ELSE deprecated_found
                     sub == find_deprecated_features(table, value, new_path)
                 IN IF sub.status = "raised" THEN sub
                    ELSE DictLoop(table, entries, path, i + 1, appended \o sub.value)

\* mutant of ListLoop: the Findings of an element are put before those of the
\* elements ahead of it
ListLoopReversed(table, items, path, i, deprecated_found) ==
    IF i >= Len(items) THEN Returned(deprecated_found)
    ELSE LET new_path == IndexPath(path, i)
             sub == find_deprecated_features(table, items[i + 1], new_path)
         IN IF sub.status = "raised" THEN sub
            ELSE ListLoop(table, items, path, i + 1, sub.value \o deprecated_found)

\* for i, item in enumerate(data), from the i-th item (zero-based) on
ListLoop(table, items, path, i, deprecated_found) ==
    IF i >= Len(items) THEN Returned(deprecated_found)
    ELSE LET new_path == IndexPath(path, i)
             sub == find_deprecated_features(table, items[i + 1], new_path)
         IN IF sub.status = "raised" THEN sub
            ELSE ListLoop(table, items, path, i + 1, deprecated_found \o sub.value)

\* mutant of find_deprecated_features: sequences are not descended into
FindWithoutListDescent(table, data, path) ==
    IF data.tag = "dict" THEN DictLoop(table, data.entries, path, 1, <<>>)
    ELSE Returned(<<>>)

find_deprecated_features(table, data, path) ==
    IF data.tag = "dict" THEN DictLoop(table, data.entries, path, 1, <<>>)
    ELSE IF data.tag = "list" THEN ListLoop(table, data.items, path, 0, <<>>)
    ELSE Returned(<<>>)

---------------------------------------------------------------------------
(* The Loaders *)

\* The config_type argument is text as a sequence of Unicode code points, the
\* unit str.lower() works on: "yaml" is <<121, 97, 109, 108>>.

\* str.lower() of CPython 3.11 on single code points: <<first, last, step, d>> says
\* that the code points first, first + step, ..., last become themselves plus d
LowerRules ==
    {
      <<65, 90, 1, 32>>, <<192, 214, 1, 32>>, <<216, 222, 1, 32>>, <<256, 302, 2, 1>>,
      <<306, 310, 2, 1>>, <<313, 327, 2, 1>>, <<330, 374, 2, 1>>, <<376, 376, 1, -121>>,
      <<377, 381, 2, 1>>, <<385, 385, 1, 210>>, <<386, 388, 2, 1>>, <<390, 390, 1, 206>>,
      <<391, 391, 1, 1>>, <<393, 394, 1, 205>>, <<395, 395, 1, 1>>, <<398, 398, 1, 79>>,
      <<399, 399, 1, 202>>, <<400, 400, 1, 203>>, <<401, 401, 1, 1>>, <<403, 403, 1, 205>>,
      <<404, 404, 1, 207>>, <<406, 406, 1, 211>>, <<407, 407, 1, 209>>, <<408, 408, 1, 1>>,
      <<412, 412, 1, 211>>, <<413, 413, 1, 213>>, <<415, 415, 1, 214>>, <<416, 420, 2, 1>>,
      <<422, 422, 1, 218>>, <<423, 423, 1, 1>>, <<425, 425, 1, 218>>, <<428, 428, 1, 1>>,
      <<430, 430, 1, 218>>, <<431, 431, 1, 1>>, <<433, 434, 1, 217>>, <<435, 437, 2, 1>>,
      <<439, 439, 1, 219>>, <<440, 440, 1, 1>>, <<444, 444, 1, 1>>, <<452, 452, 1, 2>>,
      <<453, 453, 1, 1>>, <<455, 455, 1, 2>>, <<456, 456, 1, 1>>, <<458, 458, 1, 2>>,
      <<459, 475, 2, 1>>, <<478, 494, 2, 1>>, <<497, 497, 1, 2>>, <<498, 500, 2, 1>>,
      <<502, 502, 1, -97>>, <<503, 503, 1, -56>>, <<504, 542, 2, 1>>, <<544, 544, 1, -130>>,
      <<546, 562, 2, 1>>, <<570, 570, 1, 10795>>, <<571, 571, 1, 1>>, <<573, 573, 1, -163>>,
      <<574, 574, 1, 10792>>, <<577, 577, 1, 1>>, <<579, 579, 1, -195>>, <<580, 580, 1, 69>>,
      <<581, 581, 1, 71>>, <<582, 590, 2, 1>>, <<880, 882, 2, 1>>, <<886, 886, 1, 1>>,
      <<895, 895, 1, 116>>, <<902, 902, 1, 38>>, <<904, 906, 1, 37>>, <<908, 908, 1, 64>>,
      <<910, 911, 1, 63>>, <<913, 929, 1, 32>>, <<931, 939, 1, 32>>, <<975, 975, 1, 8>>,
      <<984, 1006, 2, 1>>, <<1012, 1012, 1, -60>>, <<1015, 1015, 1, 1>>, <<1017, 1017, 1, -7>>,
      <<1018, 1018, 1, 1>>, <<1021, 1023, 1, -130>>, <<1024, 1039, 1, 80>>, <<1040, 1071, 1, 32>>,
      <<1120, 1152, 2, 1>>, <<1162, 1214, 2, 1>>, <<1216, 1216, 1, 15>>, <<1217, 1229, 2, 1>>,
      <<1232, 1326, 2, 1>>, <<1329, 1366, 1, 48>>, <<4256, 4293, 1, 7264>>, <<4295, 4295, 1, 7264>>,
      <<4301, 4301, 1, 7264>>, <<5024, 5103, 1, 38864>>, <<5104, 5109, 1, 8>>, <<7312, 7354, 1, -3008>>,
      <<7357, 7359, 1, -3008>>, <<7680, 7828, 2, 1>>, <<7838, 7838, 1, -7615>>, <<7840, 7934, 2, 1>>,
      <<7944, 7951, 1, -8>>, <<7960, 7965, 1, -8>>, <<7976, 7983, 1, -8>>, <<7992, 7999, 1, -8>>,
      <<8008, 8013, 1, -8>>, <<8025, 8031, 2, -8>>, <<8040, 8047, 1, -8>>, <<8072, 8079, 1, -8>>,
      <<8088, 8095, 1, -8>>, <<8104, 8111, 1, -8>>, <<8120, 8121, 1, -8>>, <<8122, 8123, 1, -74>>,
      <<8124, 8124, 1, -9>>, <<8136, 8139, 1, -86>>, <<8140, 8140, 1, -9>>, <<8152, 8153, 1, -8>>,
      <<8154, 8155, 1, -100>>, <<8168, 8169, 1, -8>>, <<8170, 8171, 1, -112>>, <<8172, 8172, 1, -7>>,
      <<8184, 8185, 1, -128>>, <<8186, 8187, 1, -126>>, <<8188, 8188, 1, -9>>, <<8486, 8486, 1, -7517>>,
      <<8490, 8490, 1, -8383>>, <<8491, 8491, 1, -8262>>, <<8498, 8498, 1, 28>>, <<8544, 8559, 1, 16>>,
      <<8579, 8579, 1, 1>>, <<9398, 9423, 1, 26>>, <<11264, 11311, 1, 48>>, <<11360, 11360, 1, 1>>,
      <<11362, 11362, 1, -10743>>, <<11363, 11363, 1, -3814>>, <<11364, 11364, 1, -10727>>, <<11367, 11371, 2, 1>>,
      <<11373, 11373, 1, -10780>>, <<11374, 11374, 1, -10749>>, <<11375, 11375, 1, -10783>>, <<11376, 11376, 1, -10782>>,
      <<11378, 11378, 1, 1>>, <<11381, 11381, 1, 1>>, <<11390, 11391, 1, -10815>>, <<11392, 11490, 2, 1>>,
      <<11499, 11501, 2, 1>>, <<11506, 11506, 1, 1>>, <<42560, 42604, 2, 1>>, <<42624, 42650, 2, 1>>,
      <<42786, 42798, 2, 1>>, <<42802, 42862, 2, 1>>, <<42873, 42875, 2, 1>>, <<42877, 42877, 1, -35332>>,
      <<42878, 42886, 2, 1>>, <<42891, 42891, 1, 1>>, <<42893, 42893, 1, -42280>>, <<42896, 42898, 2, 1>>,
      <<42902, 42920, 2, 1>>, <<42922, 42922, 1, -42308>>, <<42923, 42923, 1, -42319>>, <<42924, 42924, 1, -42315>>,
      <<42925, 42925, 1, -42305>>, <<42926, 42926, 1, -42308>>, <<42928, 42928, 1, -42258>>, <<42929, 42929, 1, -42282>>,
      <<42930, 42930, 1, -42261>>, <<42931, 42931, 1, 928>>, <<42932, 42946, 2, 1>>, <<42948, 42948, 1, -48>>,
      <<42949, 42949, 1, -42307>>, <<42950, 42950, 1, -35384>>, <<42951, 42953, 2, 1>>, <<42960, 42960, 1, 1>>,
      <<42966, 42968, 2, 1>>, <<42997, 42997, 1, 1>>, <<65313, 65338, 1, 32>>, <<66560, 66599, 1, 40>>,
      <<66736, 66771, 1, 40>>, <<66928, 66964, 2, 39>>, <<66929, 66937, 2, 39>>, <<66941, 66953, 2, 39>>,
      <<66957, 66961, 2, 39>>, <<66965, 66965, 1, 39>>, <<68736, 68786, 1, 64>>, <<71840, 71871, 1, 32>>,
      <<93760, 93791, 1, 32>>, <<125184, 125217, 1, 34>> }

\* the runs <<first, last>> of cased code points
CasedRuns ==
    {
      <<65, 90>>, <<97, 122>>, <<170, 170>>, <<181, 181>>, <<186, 186>>, <<192, 214>>,
      <<216, 246>>, <<248, 442>>, <<444, 447>>, <<452, 659>>, <<661, 687>>, <<880, 883>>,
      <<886, 887>>, <<891, 893>>, <<895, 895>>, <<902, 902>>, <<904, 906>>, <<908, 908>>,
      <<910, 929>>, <<931, 1013>>, <<1015, 1153>>, <<1162, 1327>>, <<1329, 1366>>, <<1376, 1416>>,
      <<4256, 4293>>, <<4295, 4295>>, <<4301, 4301>>, <<4304, 4346>>, <<4349, 4351>>, <<5024, 5109>>,
      <<5112, 5117>>, <<7296, 7304>>, <<7312, 7354>>, <<7357, 7359>>, <<7424, 7467>>, <<7531, 7543>>,
      <<7545, 7578>>, <<7680, 7957>>, <<7960, 7965>>, <<7968, 8005>>, <<8008, 8013>>, <<8016, 8023>>,
      <<8025, 8025>>, <<8027, 8027>>, <<8029, 8029>>, <<8031, 8061>>, <<8064, 8116>>, <<8118, 8124>>,
      <<8126, 8126>>, <<8130, 8132>>, <<8134, 8140>>, <<8144, 8147>>, <<8150, 8155>>, <<8160, 8172>>,
      <<8178, 8180>>, <<8182, 8188>>, <<8450, 8450>>, <<8455, 8455>>, <<8458, 8467>>, <<8469, 8469>>,
      <<8473, 8477>>, <<8484, 8484>>, <<8486, 8486>>, <<8488, 8488>>, <<8490, 8493>>, <<8495, 8500>>,
      <<8505, 8505>>, <<8508, 8511>>, <<8517, 8521>>, <<8526, 8526>>, <<8544, 8575>>, <<8579, 8580>>,
      <<9398, 9449>>, <<11264, 11387>>, <<11390, 11492>>, <<11499, 11502>>, <<11506, 11507>>, <<11520, 11557>>,
      <<11559, 11559>>, <<11565, 11565>>, <<42560, 42605>>, <<42624, 42651>>, <<42786, 42863>>, <<42865, 42887>>,
      <<42891, 42894>>, <<42896, 42954>>, <<42960, 42961>>, <<42963, 42963>>, <<42965, 42969>>, <<42997, 42998>>,
      <<43002, 43002>>, <<43824, 43866>>, <<43872, 43880>>, <<43888, 43967>>, <<64256, 64262>>, <<64275, 64279>>,
      <<65313, 65338>>, <<65345, 65370>>, <<66560, 66639>>, <<66736, 66771>>, <<66776, 66811>>, <<66928, 66938>>,
      <<66940, 66954>>, <<66956, 66962>>, <<66964, 66965>>, <<66967, 66977>>, <<66979, 66993>>, <<66995, 67001>>,
      <<67003, 67004>>, <<68736, 68786>>, <<68800, 68850>>, <<71840, 71903>>, <<93760, 93823>>, <<119808, 119892>>,
      <<119894, 119964>>, <<119966, 119967>>, <<119970, 119970>>, <<119973, 119974>>, <<119977, 119980>>, <<119982, 119993>>,
      <<119995, 119995>>, <<119997, 120003>>, <<120005, 120069>>, <<120071, 120074>>, <<120077, 120084>>, <<120086, 120092>>,
      <<120094, 120121>>, <<120123, 120126>>, <<120128, 120132>>, <<120134, 120134>>, <<120138, 120144>>, <<120146, 120485>>,
      <<120488, 120512>>, <<120514, 120538>>, <<120540, 120570>>, <<120572, 120596>>, <<120598, 120628>>, <<120630, 120654>>,
      <<120656, 120686>>, <<120688, 120712>>, <<120714, 120744>>, <<120746, 120770>>, <<120772, 120779>>, <<122624, 122633>>,
      <<122635, 122654>>, <<125184, 125251>>, <<127280, 127305>>, <<127312, 127337>>, <<127344, 127369>> }

\* the runs <<first, last>> of case-ignorable code points
CaseIgnorableRuns ==
    {
      <<39, 39>>, <<46, 46>>, <<58, 58>>, <<94, 94>>, <<96, 96>>, <<168, 168>>,
      <<173, 173>>, <<175, 175>>, <<180, 180>>, <<183, 184>>, <<688, 879>>, <<884, 885>>,
      <<890, 890>>, <<900, 901>>, <<903, 903>>, <<1155, 1161>>, <<1369, 1369>>, <<1375, 1375>>,
      <<1425, 1469>>, <<1471, 1471>>, <<1473, 1474>>, <<1476, 1477>>, <<1479, 1479>>, <<1524, 1524>>,
      <<1536, 1541>>, <<1552, 1562>>, <<1564, 1564>>, <<1600, 1600>>, <<1611, 1631>>, <<1648, 1648>>,
      <<1750, 1757>>, <<1759, 1768>>, <<1770, 1773>>, <<1807, 1807>>, <<1809, 1809>>, <<1840, 1866>>,
      <<1958, 1968>>, <<2027, 2037>>, <<2042, 2042>>, <<2045, 2045>>, <<2070, 2093>>, <<2137, 2139>>,
      <<2184, 2184>>, <<2192, 2193>>, <<2200, 2207>>, <<2249, 2306>>, <<2362, 2362>>, <<2364, 2364>>,
      <<2369, 2376>>, <<2381, 2381>>, <<2385, 2391>>, <<2402, 2403>>, <<2417, 2417>>, <<2433, 2433>>,
      <<2492, 2492>>, <<2497, 2500>>, <<2509, 2509>>, <<2530, 2531>>, <<2558, 2558>>, <<2561, 2562>>,
      <<2620, 2620>>, <<2625, 2626>>, <<2631, 2632>>, <<2635, 2637>>, <<2641, 2641>>, <<2672, 2673>>,
      <<2677, 2677>>, <<2689, 2690>>, <<2748, 2748>>, <<2753, 2757>>, <<2759, 2760>>, <<2765, 2765>>,
      <<2786, 2787>>, <<2810, 2815>>, <<2817, 2817>>, <<2876, 2876>>, <<2879, 2879>>, <<2881, 2884>>,
      <<2893, 2893>>, <<2901, 2902>>, <<2914, 2915>>, <<2946, 2946>>, <<3008, 3008>>, <<3021, 3021>>,
      <<3072, 3072>>, <<3076, 3076>>, <<3132, 3132>>, <<3134, 3136>>, <<3142, 3144>>, <<3146, 3149>>,
      <<3157, 3158>>, <<3170, 3171>>, <<3201, 3201>>, <<3260, 3260>>, <<3263, 3263>>, <<3270, 3270>>,
      <<3276, 3277>>, <<3298, 3299>>, <<3328, 3329>>, <<3387, 3388>>, <<3393, 3396>>, <<3405, 3405>>,
      <<3426, 3427>>, <<3457, 3457>>, <<3530, 3530>>, <<3538, 3540>>, <<3542, 3542>>, <<3633, 3633>>,
      <<3636, 3642>>, <<3654, 3662>>, <<3761, 3761>>, <<3764, 3772>>, <<3782, 3782>>, <<3784, 3789>>,
      <<3864, 3865>>, <<3893, 3893>>, <<3895, 3895>>, <<3897, 3897>>, <<3953, 3966>>, <<3968, 3972>>,
      <<3974, 3975>>, <<3981, 3991>>, <<3993, 4028>>, <<4038, 4038>>, <<4141, 4144>>, <<4146, 4151>>,
      <<4153, 4154>>, <<4157, 4158>>, <<4184, 4185>>, <<4190, 4192>>, <<4209, 4212>>, <<4226, 4226>>,
      <<4229, 4230>>, <<4237, 4237>>, <<4253, 4253>>, <<4348, 4348>>, <<4957, 4959>>, <<5906, 5908>>,
      <<5938, 5939>>, <<5970, 5971>>, <<6002, 6003>>, <<6068, 6069>>, <<6071, 6077>>, <<6086, 6086>>,
      <<6089, 6099>>, <<6103, 6103>>, <<6109, 6109>>, <<6155, 6159>>, <<6211, 6211>>, <<6277, 6278>>,
      <<6313, 6313>>, <<6432, 6434>>, <<6439, 6440>>, <<6450, 6450>>, <<6457, 6459>>, <<6679, 6680>>,
      <<6683, 6683>>, <<6742, 6742>>, <<6744, 6750>>, <<6752, 6752>>, <<6754, 6754>>, <<6757, 6764>>,
      <<6771, 6780>>, <<6783, 6783>>, <<6823, 6823>>, <<6832, 6862>>, <<6912, 6915>>, <<6964, 6964>>,
      <<6966, 6970>>, <<6972, 6972>>, <<6978, 6978>>, <<7019, 7027>>, <<7040, 7041>>, <<7074, 7077>>,
      <<7080, 7081>>, <<7083, 7085>>, <<7142, 7142>>, <<7144, 7145>>, <<7149, 7149>>, <<7151, 7153>>,
      <<7212, 7219>>, <<7222, 7223>>, <<7288, 7293>>, <<7376, 7378>>, <<7380, 7392>>, <<7394, 7400>>,
      <<7405, 7405>>, <<7412, 7412>>, <<7416, 7417>>, <<7468, 7530>>, <<7544, 7544>>, <<7579, 7679>>,
      <<8125, 8125>>, <<8127, 8129>>, <<8141, 8143>>, <<8157, 8159>>, <<8173, 8175>>, <<8189, 8190>>,
      <<8203, 8207>>, <<8216, 8217>>, <<8228, 8228>>, <<8231, 8231>>, <<8234, 8238>>, <<8288, 8292>>,
      <<8294, 8303>>, <<8305, 8305>>, <<8319, 8319>>, <<8336, 8348>>, <<8400, 8432>>, <<11388, 11389>>,
      <<11503, 11505>>, <<11631, 11631>>, <<11647, 11647>>, <<11744, 11775>>, <<11823, 11823>>, <<12293, 12293>>,
      <<12330, 12333>>, <<12337, 12341>>, <<12347, 12347>>, <<12441, 12446>>, <<12540, 12542>>, <<40981, 40981>>,
      <<42232, 42237>>, <<42508, 42508>>, <<42607, 42610>>, <<42612, 42621>>, <<42623, 42623>>, <<42652, 42655>>,
      <<42736, 42737>>, <<42752, 42785>>, <<42864, 42864>>, <<42888, 42890>>, <<42994, 42996>>, <<43000, 43001>>,
      <<43010, 43010>>, <<43014, 43014>>, <<43019, 43019>>, <<43045, 43046>>, <<43052, 43052>>, <<43204, 43205>>,
      <<43232, 43249>>, <<43263, 43263>>, <<43302, 43309>>, <<43335, 43345>>, <<43392, 43394>>, <<43443, 43443>>,
      <<43446, 43449>>, <<43452, 43453>>, <<43471, 43471>>, <<43493, 43494>>, <<43561, 43566>>, <<43569, 43570>>,
      <<43573, 43574>>, <<43587, 43587>>, <<43596, 43596>>, <<43632, 43632>>, <<43644, 43644>>, <<43696, 43696>>,
      <<43698, 43700>>, <<43703, 43704>>, <<43710, 43711>>, <<43713, 43713>>, <<43741, 43741>>, <<43756, 43757>>,
      <<43763, 43764>>, <<43766, 43766>>, <<43867, 43871>>, <<43881, 43883>>, <<44005, 44005>>, <<44008, 44008>>,
      <<44013, 44013>>, <<64286, 64286>>, <<64434, 64450>>, <<65024, 65039>>, <<65043, 65043>>, <<65056, 65071>>,
      <<65106, 65106>>, <<65109, 65109>>, <<65279, 65279>>, <<65287, 65287>>, <<65294, 65294>>, <<65306, 65306>>,
      <<65342, 65342>>, <<65344, 65344>>, <<65392, 65392>>, <<65438, 65439>>, <<65507, 65507>>, <<65529, 65531>>,
      <<66045, 66045>>, <<66272, 66272>>, <<66422, 66426>>, <<67456, 67461>>, <<67463, 67504>>, <<67506, 67514>>,
      <<68097, 68099>>, <<68101, 68102>>, <<68108, 68111>>, <<68152, 68154>>, <<68159, 68159>>, <<68325, 68326>>,
      <<68900, 68903>>, <<69291, 69292>>, <<69446, 69456>>, <<69506, 69509>>, <<69633, 69633>>, <<69688, 69702>>,
      <<69744, 69744>>, <<69747, 69748>>, <<69759, 69761>>, <<69811, 69814>>, <<69817, 69818>>, <<69821, 69821>>,
      <<69826, 69826>>, <<69837, 69837>>, <<69888, 69890>>, <<69927, 69931>>, <<69933, 69940>>, <<70003, 70003>>,
      <<70016, 70017>>, <<70070, 70078>>, <<70089, 70092>>, <<70095, 70095>>, <<70191, 70193>>, <<70196, 70196>>,
      <<70198, 70199>>, <<70206, 70206>>, <<70367, 70367>>, <<70371, 70378>>, <<70400, 70401>>, <<70459, 70460>>,
      <<70464, 70464>>, <<70502, 70508>>, <<70512, 70516>>, <<70712, 70719>>, <<70722, 70724>>, <<70726, 70726>>,
      <<70750, 70750>>, <<70835, 70840>>, <<70842, 70842>>, <<70847, 70848>>, <<70850, 70851>>, <<71090, 71093>>,
      <<71100, 71101>>, <<71103, 71104>>, <<71132, 71133>>, <<71219, 71226>>, <<71229, 71229>>, <<71231, 71232>>,
      <<71339, 71339>>, <<71341, 71341>>, <<71344, 71349>>, <<71351, 71351>>, <<71453, 71455>>, <<71458, 71461>>,
      <<71463, 71467>>, <<71727, 71735>>, <<71737, 71738>>, <<71995, 71996>>, <<71998, 71998>>, <<72003, 72003>>,
      <<72148, 72151>>, <<72154, 72155>>, <<72160, 72160>>, <<72193, 72202>>, <<72243, 72248>>, <<72251, 72254>>,
      <<72263, 72263>>, <<72273, 72278>>, <<72281, 72283>>, <<72330, 72342>>, <<72344, 72345>>, <<72752, 72758>>,
      <<72760, 72765>>, <<72767, 72767>>, <<72850, 72871>>, <<72874, 72880>>, <<72882, 72883>>, <<72885, 72886>>,
      <<73009, 73014>>, <<73018, 73018>>, <<73020, 73021>>, <<73023, 73029>>, <<73031, 73031>>, <<73104, 73105>>,
      <<73109, 73109>>, <<73111, 73111>>, <<73459, 73460>>, <<78896, 78904>>, <<92912, 92916>>, <<92976, 92982>>,
      <<92992, 92995>>, <<94031, 94031>>, <<94095, 94111>>, <<94176, 94177>>, <<94179, 94180>>, <<110576, 110579>>,
      <<110581, 110587>>, <<110589, 110590>>, <<113821, 113822>>, <<113824, 113827>>, <<118528, 118573>>, <<118576, 118598>>,
      <<119143, 119145>>, <<119155, 119170>>, <<119173, 119179>>, <<119210, 119213>>, <<119362, 119364>>, <<121344, 121398>>,
      <<121403, 121452>>, <<121461, 121461>>, <<121476, 121476>>, <<121499, 121503>>, <<121505, 121519>>, <<122880, 122886>>,
      <<122888, 122904>>, <<122907, 122913>>, <<122915, 122916>>, <<122918, 122922>>, <<123184, 123197>>, <<123566, 123566>>,
      <<123628, 123631>>, <<125136, 125142>>, <<125252, 125259>>, <<127995, 127999>>, <<917505, 917505>>, <<917536, 917631>>,
      <<917760, 917999>> }

InRun(c, r) == r[1] <= c /\ c <= r[2]

\* a cased code point that is not case-ignorable: the only ones whose casing
\* the final-sigma rule looks at
IsCased(c) == \E r \in CasedRuns : InRun(c, r)

IsCaseIgnorable(c) == \E r \in CaseIgnorableRuns : InRun(c, r)

\* str.lower() of one code point out of context: U+0130 becomes two code
\* points, a code point of LowerRules is shifted, every other one stays
LowerCodePoint(c) ==
    IF c = 304 THEN <<105, 775>>
    ELSE IF \E r \in LowerRules : InRun(c, r) /\ (c - r[1]) % r[3] = 0
    THEN LET r == CHOOSE q \in LowerRules : InRun(c, q) /\ (c - q[1]) % q[3] = 0
         IN <<c + r[4]>>
    ELSE <<c>>

\* the capital sigma at s[i] ends a word: skipping case-ignorable code points,
\* a cased one comes before it and none comes after it
FinalSigma(s, i) ==
    LET before == {j \in 1..(i - 1) : ~IsCaseIgnorable(s[j])}
        after == {j \in (i + 1)..Len(s) : ~IsCaseIgnorable(s[j])}
    IN /\ before # {}
       /\ IsCased(s[CHOOSE j \in before : \A k \in before : k <= j])
       /\ \/ after = {}
          \/ ~IsCased(s[CHOOSE j \in after : \A k \in after : j <= k])

RECURSIVE LowerFrom(_, _)
LowerFrom(s, i) ==
    IF i > Len(s) THEN <<>>
    ELSE (IF s[i] = 931 /\ FinalSigma(s, i) THEN <<962>> ELSE LowerCodePoint(s[i]))
         \o LowerFrom(s, i + 1)

\* config_type.lower()
Lower(s) == LowerFrom(s, 1)

\* 'yaml' and 'json', which load_config_data compares self.config_type with
TypeYaml == <<121, 97, 109, 108>>
TypeJson == <<106, 115, 111, 110>>

\* A file on disk: whether it exists, and what its text is: "json" text parses
\* with json.load and with yaml.safe_load (flow style), "yaml" text (block
\* style) parses with yaml.safe_load only, "bad" text parses with neither;
\* doc is the value the text denotes.
MissingFile == [exists |-> FALSE, syntax |-> "bad", doc |-> PyNone]
FileOf(syntax, doc) == [exists |-> TRUE, syntax |-> syntax, doc |-> doc]

\* json.load(f): the document, or an exception
JsonLoad(file) ==
    IF file.syntax = "json" THEN Returned(file.doc) ELSE Raised("JSONDecodeError")

\* yaml.safe_load(f): the document, or an exception
YamlSafeLoad(file) ==
    IF file.syntax \in {"json", "yaml"} THEN Returned(file.doc) ELSE Raised("YAMLError")

LogRec(level, msg) == [level |-> level, msg |-> msg]

\* load_config_data: the value returned and the records logged
load_config_data(file, type) ==
    IF ~file.exists
    THEN [value |-> PyNone, logged |-> <<LogRec("ERROR", "Configuration file not found")>>]
    ELSE IF type = TypeYaml
         THEN LET r == YamlSafeLoad(file)
              IN IF r.status = "returned"
                 THEN [value |-> r.value, logged |-> <<>>]
                 ELSE [value |-> PyNone,
                       logged |-> <<LogRec("ERROR", "Error loading configuration file")>>]
    ELSE IF type = TypeJson
         THEN LET r == JsonLoad(file)
              IN IF r.status = "returned"
                 THEN [value |-> r.value, logged |-> <<>>]
                 ELSE [value |-> PyNone,
                       logged |-> <<LogRec("ERROR", "Error loading configuration file")>>]
    ELSE [value |-> PyNone,
          logged |-> <<LogRec("ERROR", "Unsupported configuration type")>>]

\* load_deprecated_features: the value returned and the records logged
load_deprecated_features(file) ==
    IF ~file.exists
    THEN [value |-> PyNone,
          logged |-> <<LogRec("ERROR", "Deprecated features file not found")>>]
    ELSE LET r == JsonLoad(file)
         IN IF r.status = "returned"
            THEN [value |-> r.value, logged |-> <<>>]
            ELSE [value |-> PyNone,
                  logged |-> <<LogRec("ERROR", "Error loading deprecated features file")>>]

---------------------------------------------------------------------------
(* run() *)

\* the four warnings logged for one finding
FindingLog(f) ==
    << [level |-> "WARNING", msg |-> "Feature", arg |-> PyStr(f.feature)],
       [level |-> "WARNING", msg |-> "Path", arg |-> PyStr(f.path)],
       [level |-> "WARNING", msg |-> "Details", arg |-> f.deprecation_info],
       LogRec("WARNING", "------------------------------") >>

RECURSIVE FindingsLog(_)
FindingsLog(fs) == IF fs = <<>> THEN <<>> ELSE FindingLog(Head(fs)) \o FindingsLog(Tail(fs))

\* mutant of RunGuardFails: `and` in place of `or`
RunGuardFailsBoth(data, table) == ~Truthy(data) /\ ~Truthy(table)

\* the guard of run(): not self.config_data or not self.deprecated_features
RunGuardFails(data, table) == ~Truthy(data) \/ ~Truthy(table)

\* run(): its outcome, the records it logs, and whether it called the Matcher
run(data, table) ==
    IF RunGuardFails(data, table)
    THEN [outcome |-> Returned(<<>>),
          logged |-> <<LogRec("ERROR",
                       "Failed to load configuration data or deprecated features.  Exiting.")>>,
          called |-> FALSE]
    ELSE LET r == find_deprecated_features(table, data, <<>>)
         IN IF r.status = "raised"
            THEN [outcome |-> r, logged |-> <<>>, called |-> TRUE]
            ELSE IF r.value # <<>>
            THEN [outcome |-> r,
                  logged |-> <<LogRec("WARNING",
                               "Deprecated features found in the configuration file:")>>
                             \o FindingsLog(r.value),
                  called |-> TRUE]
            ELSE [outcome |-> r,
                  logged |-> <<LogRec("INFO",
                               "No deprecated features found in the configuration file.")>>,
                  called |-> TRUE]

---------------------------------------------------------------------------
(* Inputs *)

KeyA == <<"a">>
KeyEmpty == <<>>
KeyDotted == <<"a", ".", "a">>
TreeKeys == {KeyA, KeyEmpty, KeyDotted}

\* the nodes without children: a scalar that spells a deprecated name, and
\* the empty containers
Leaves == {PyStr(KeyA), PyDict(<<>>), PyList(<<>>)}

\* the key tuples of a mapping with n entries
DistinctKeys(n) ==
    {ks \in [1..n -> TreeKeys] : \A i, j \in 1..n : ks[i] = ks[j] => i = j}

RECURSIVE TreesOfSize(_)
RECURSIVE Forests(_)

\* the sequences of trees with m nodes in all
Forests(m) ==
    IF m = 0 THEN {<<>>}
    ELSE UNION {{<<t>> \o f : t \in TreesOfSize(k), f \in Forests(m - k)} : k \in 1..m}

\* the trees with exactly n nodes
TreesOfSize(n) ==
    IF n = 1 THEN Leaves
    ELSE UNION {{PyList(f)} \cup
                {PyDict([i \in 1..Len(f) |-> [key |-> ks[i], value |-> f[i]]]) :
                     ks \in DistinctKeys(Len(f))} : f \in Forests(n - 1)}

Entry(k, v) == [key |-> k, value |-> v]

\* {"a": {"b": [1, {"c": 2}]}}
PathExampleTree ==
    PyDict(<<Entry(<<"a">>, PyDict(<<Entry(<<"b">>,
        PyList(<<PyInt(1), PyDict(<<Entry(<<"c">>, PyInt(2))>>)>>))>>))>>)

\* {"v": "v1", "s": {"old": 123, "new": 456}}, the shape of the example in main.py
ScenarioTree ==
    PyDict(<<Entry(<<"v">>, PyStr(<<"v", "1">>)),
             Entry(<<"s">>, PyDict(<<Entry(<<"o", "l", "d">>, PyInt(123)),
                                     Entry(<<"n", "e", "w">>, PyInt(456))>>))>>)

\* {"a[0]": {"c": 1}, "a": [{"c": 2}]}
BracketKeyTree ==
    PyDict(<<Entry(<<"a", "[", "0", "]">>, PyDict(<<Entry(<<"c">>, PyInt(1))>>)),
             Entry(<<"a">>, PyList(<<PyDict(<<Entry(<<"c">>, PyInt(2))>>)>>))>>)

\* eleven elements, so that an index takes two digits
LongListTree ==
    PyList([i \in 1..11 |-> IF i = 11 THEN PyDict(<<Entry(<<"c">>, PyInt(i))>>)
                                      ELSE PyInt(i)])

\* [{"a": {"a": 1}, "": 2}, {"a": 3}]: both elements of one sequence hold
\* deprecated keys
SequenceOrderTree ==
    PyList(<<PyDict(<<Entry(KeyA, PyDict(<<Entry(KeyA, PyInt(1))>>)),
                      Entry(KeyEmpty, PyInt(2))>>),
             PyDict(<<Entry(KeyA, PyInt(3))>>)>>)

\* {"a": [{"a": 1}, [{"": 2}], {"a": 3}], "": 4}: a sequence of three elements
\* with deprecated keys, one of them a nested sequence, then a later entry
NestedSequenceTree ==
    PyDict(<<Entry(KeyA, PyList(<<PyDict(<<Entry(KeyA, PyInt(1))>>),
                                  PyList(<<PyDict(<<Entry(KeyEmpty, PyInt(2))>>)>>),
                                  PyDict(<<Entry(KeyA, PyInt(3))>>)>>)),
             Entry(KeyEmpty, PyInt(4))>>)

ExampleTrees ==
    {PathExampleTree, ScenarioTree, BracketKeyTree, LongListTree,
     SequenceOrderTree, NestedSequenceTree}

Trees == UNION {TreesOfSize(n) : n \in 1..MaxNodes} \cup ExampleTrees

\* deprecation metadata, carried through verbatim
InfoText == PyStr(<<"u", "s", "e", " ", "b">>)
InfoRecord == PyDict(<<Entry(<<"r">>, PyStr(<<"b">>))>>)

MappingTables ==
    { PyDict(<<>>),
      PyDict(<<Entry(KeyA, InfoRecord)>>),
      PyDict(<<Entry(KeyDotted, InfoText), Entry(KeyEmpty, InfoRecord)>>),
      PyDict(<<Entry(KeyA, InfoText), Entry(KeyEmpty, InfoText),
               Entry(KeyDotted, InfoRecord)>>),
      PyDict(<<Entry(<<"c">>, InfoText), Entry(<<"v">>, InfoRecord),
               Entry(<<"o", "l", "d">>, InfoText)>>) }

\* JSON roots that are not objects
NonMappingTables ==
    { PyList(<<PyStr(KeyA)>>), PyList(<<PyInt(5)>>), PyStr(<<"b", "a">>),
      PyInt(5), PyBool(TRUE) }

Tables == MappingTables \cup NonMappingTables

\* documents of the process-level specification
ConfigDocs ==
    { PyDict(<<>>), PyList(<<>>), PyInt(0), PyStr(<<>>), PyBool(FALSE), PyNone,
      PyDict(<<Entry(KeyA, PyStr(KeyA))>>),
      PyDict(<<Entry(<<"b">>, PyDict(<<Entry(KeyA, PyInt(1))>>)), Entry(KeyA, PyInt(2))>>),
      PyDict(<<Entry(<<"b">>, PyInt(1))>>),
      PyList(<<PyStr(KeyA)>>),
      PyInt(7) }

TableDocs ==
    { PyDict(<<>>), PyNone, PyInt(0),
      PyDict(<<Entry(KeyA, InfoRecord)>>),
      PyList(<<PyStr(KeyA)>>), PyList(<<PyInt(5)>>), PyStr(<<"b", "a">>),
      PyInt(5), PyBool(TRUE) }

Syntaxes == {"json", "yaml", "bad"}
ConfigFiles == {MissingFile} \cup {FileOf(x, d) : x \in Syntaxes, d \in ConfigDocs}
TableFiles == {MissingFile} \cup {FileOf(x, d) : x \in Syntaxes, d \in TableDocs}

\* --config-type is restricted by argparse; the constructor takes any string
MainConfigTypes == {TypeYaml, TypeJson}
\* (YAML, yAmL, Json, xml, Xml, the empty string, and four spellings with
\* capitals outside ASCII: J E-acute, Alpha Sigma, I-with-dot, Kelvin-sign aml)
ApiConfigTypes ==
    { TypeYaml, TypeJson,
      <<89, 65, 77, 76>>, <<121, 65, 109, 76>>, <<74, 115, 111, 110>>,
      <<120, 109, 108>>, <<88, 109, 108>>, <<>>,
      <<74, 201>>, <<913, 931>>, <<304>>, <<8490, 97, 109, 108>> }

---------------------------------------------------------------------------
(* The process: main(), the constructor, run() *)

Init ==
    /\ entry \in {"main", "api"}
    /\ pc = IF entry = "main" THEN "main" ELSE "init"
    /\ config_file \in ConfigFiles
    /\ deprecated_features_file \in TableFiles
    /\ config_type \in IF entry = "main" THEN MainConfigTypes ELSE ApiConfigTypes
    /\ deprecated_features = PyNone
    /\ config_data = PyNone
    /\ scans = <<>>
    /\ results = <<>>
    /\ exit_code = 0
    /\ log = <<>>
    /\ matcher_calls = 0

\* main(), lines 151-158: the two existence checks
MainCheckFiles ==
    /\ pc = "main"
    /\ IF ~config_file.exists
       THEN /\ log' = Append(log, LogRec("ERROR", "Configuration file not found"))
            /\ exit_code' = 1
            /\ pc' = "exited"
       ELSE IF ~deprecated_features_file.exists
       THEN /\ log' = Append(log, LogRec("ERROR", "Deprecated features file not found"))
            /\ exit_code' = 1
            /\ pc' = "exited"
       ELSE /\ pc' = "init"
            /\ UNCHANGED <<log, exit_code>>
    /\ UNCHANGED <<entry, config_file, config_type, deprecated_features_file,
                   deprecated_features, config_data, scans, results, matcher_calls>>

\* __init__, line 30
LoadDeprecatedFeatures ==
    /\ pc = "init"
    /\ LET r == load_deprecated_features(deprecated_features_file)
       IN /\ deprecated_features' = r.value
          /\ log' = log \o r.logged
    /\ pc' = "init_config"
    /\ UNCHANGED <<entry, config_file, config_type, deprecated_features_file,
                   config_data, scans, results, exit_code, matcher_calls>>

\* __init__, lines 28 and 31
LoadConfigData ==
    /\ pc = "init_config"
    /\ LET r == load_config_data(config_file, Lower(config_type))
       IN /\ config_data' = r.value
          /\ log' = log \o r.logged
    /\ pc' = "constructed"
    /\ UNCHANGED <<entry, config_file, config_type, deprecated_features_file,
                   deprecated_features, scans, results, exit_code, matcher_calls>>

\* deprecator.run(): from main once, the uncaught TypeError ending the process
\* with status 1; from a caller of the class any number of times
Run ==
    /\ pc = "constructed"
    /\ Len(results) < (IF entry = "main" THEN 1 ELSE MaxRuns)
    /\ LET r == run(config_data, deprecated_features)
       IN /\ results' = Append(results, r.outcome)
          /\ log' = log \o r.logged
          /\ matcher_calls' = matcher_calls + (IF r.called THEN 1 ELSE 0)
          /\ IF entry = "main"
             THEN IF r.outcome.status = "raised"
                  THEN pc' = "crashed" /\ exit_code' = 1
                  ELSE pc' = "ran" /\ UNCHANGED exit_code
             ELSE UNCHANGED <<pc, exit_code>>
    /\ UNCHANGED <<entry, config_file, config_type, deprecated_features_file,
                   deprecated_features, config_data, scans>>

\* main(), lines 163-166
MainExit ==
    /\ pc = "ran"
    /\ exit_code' = IF results[1].value # <<>> THEN 2 ELSE 0
    /\ pc' = "exited"
    /\ UNCHANGED <<entry, config_file, config_type, deprecated_features_file,
                   deprecated_features, config_data, scans, results, log, matcher_calls>>

Next ==
    \/ MainCheckFiles
    \/ LoadDeprecatedFeatures
    \/ LoadConfigData
    \/ Run
    \/ MainExit

Spec == Init /\ [][Next]_vars

---------------------------------------------------------------------------
(* The Matcher on its own: an object whose two loads succeeded *)

InitMatcher ==
    /\ entry = "api"
    /\ pc = "constructed"
    /\ config_data \in Trees
    /\ deprecated_features \in Tables
    /\ config_file = FileOf("json", config_data)
    /\ deprecated_features_file = FileOf("json", deprecated_features)
    /\ config_type = TypeJson
    /\ scans = <<>>
    /\ results = <<>>
    /\ exit_code = 0
    /\ log = <<>>
    /\ matcher_calls = 0

\* deprecator.find_deprecated_features(deprecator.config_data)
FindDeprecatedFeatures ==
    /\ pc = "constructed"
    /\ Len(scans) < MaxScans
    /\ scans' = Append(scans, find_deprecated_features(deprecated_features, config_data, <<>>))
    /\ matcher_calls' = matcher_calls + 1
    /\ UNCHANGED <<entry, pc, config_file, config_type, deprecated_features_file,
                   deprecated_features, config_data, results, exit_code, log>>

NextMatcher == FindDeprecatedFeatures

SpecMatcher == InitMatcher /\ [][NextMatcher]_vars

---------------------------------------------------------------------------
(* The vocabulary of the claims: key occurrences by position *)

\* the children of a node, in order
Children(v) ==
    IF v.tag = "dict" THEN [i \in 1..Len(v.entries) |-> v.entries[i].value]
    ELSE IF v.tag = "list" THEN v.items
    ELSE <<>>

\* a position is the sequence of child numbers leading from the root to a node
RECURSIVE Positions(_)
Positions(v) ==
    {<<>>} \cup UNION {{<<i>> \o q : q \in Positions(Children(v)[i])} :
                          i \in 1..Len(Children(v))}

RECURSIVE NodeAt(_, _)
NodeAt(v, p) == IF p = <<>> THEN v ELSE NodeAt(Children(v)[Head(p)], Tail(p))

Parent(p) == SubSeq(p, 1, Len(p) - 1)

\* the positions reached through a mapping entry: the occurrences of mapping keys
KeyOccurrences(tree) ==
    {p \in Positions(tree) : p # <<>> /\ NodeAt(tree, Parent(p)).tag = "dict"}

KeyOf(tree, p) == NodeAt(tree, Parent(p)).entries[p[Len(p)]].key

TableKeys(table) == {table.entries[i].key : i \in 1..Len(table.entries)}

\* the occurrences of keys present in a mapping table
MatchedOccurrences(tree, table) ==
    {p \in KeyOccurrences(tree) : KeyOf(tree, p) \in TableKeys(table)}

\* the path after the first k descent steps of p, step by step from the root
RECURSIVE PathOfSteps(_, _, _)
PathOfSteps(tree, p, k) ==
    IF k = 0 THEN <<>>
    ELSE LET sofar == PathOfSteps(tree, p, k - 1)
             parent == NodeAt(tree, SubSeq(p, 1, k - 1))
         IN IF parent.tag = "dict"
            THEN sofar \o (IF sofar = <<>> THEN <<>> ELSE <<".">>) \o parent.entries[p[k]].key
            ELSE sofar \o <<"[">> \o IntToStr(p[k] - 1) \o <<"]">>

ExpectedFinding(tree, table, p) ==
    [feature |-> KeyOf(tree, p),
     path |-> PathOfSteps(tree, p, Len(p)),
     deprecation_info |->
         (CHOOSE e \in {table.entries[i] : i \in 1..Len(table.entries)} :
              e.key = KeyOf(tree, p)).value]

\* depth-first pre-order on positions: an ancestor first, then by the first
\* differing child number
Before(p, q) ==
    \/ Len(p) < Len(q) /\ SubSeq(q, 1, Len(p)) = p
    \/ \E k \in 1..Len(p) :
           /\ k <= Len(q)
           /\ SubSeq(p, 1, k - 1) = SubSeq(q, 1, k - 1)
           /\ p[k] < q[k]

RECURSIVE InPreOrder(_)
InPreOrder(S) ==
    IF S = {} THEN <<>>
    ELSE LET m == CHOOSE x \in S : \A y \in S \ {x} : Before(x, y)
         IN <<m>> \o InPreOrder(S \ {m})

Range(f) == {f[i] : i \in DOMAIN f}

Returns == {i \in 1..Len(scans) : scans[i].status = "returned"}

IsMappingTable == deprecated_features.tag = "dict"

\* a scalar of the tree that spells a key of the table
HasDeprecatedNameAsValue(tree, table) ==
    \E p \in Positions(tree) :
        /\ NodeAt(tree, p).tag = "str"
        /\ NodeAt(tree, p).s \in TableKeys(table)

---------------------------------------------------------------------------
(* Claims about the Matcher, checked under SpecMatcher *)

\* C1: with a mapping table, find_deprecated_features returns, for every key,
\* as many Findings with that feature as the tree has mapping-key occurrences of
\* it when the key is in the table and none otherwise, each carrying the
\* table's value for the key unchanged; scalars and sequence elements add none.
C1_OneFindingPerOccurrence ==
    IsMappingTable =>
        \A i \in 1..Len(scans) :
            /\ scans[i].status = "returned"
            /\ LET found == scans[i].value
                   occs == KeyOccurrences(config_data)
               IN /\ Len(found) = Cardinality(MatchedOccurrences(config_data, deprecated_features))
                  /\ \A k \in {f.feature : f \in Range(found)} \cup {KeyOf(config_data, p) : p \in occs} :
                         Cardinality({j \in 1..Len(found) : found[j].feature = k})
                           = IF k \in TableKeys(deprecated_features)
                             THEN Cardinality({p \in occs : KeyOf(config_data, p) = k})
                             ELSE 0
                  /\ \A j \in 1..Len(found) :
                         /\ found[j].feature \in TableKeys(deprecated_features)
                         /\ found[j].deprecation_info
                              = GetItem(deprecated_features, found[j].feature)

\* a scan that found one key at two places, in a tree that also holds a
\* deprecated name as a scalar value
C1_Witness ==
    /\ IsMappingTable
    /\ HasDeprecatedNameAsValue(config_data, deprecated_features)
    /\ \E i \in Returns : \E a, b \in 1..Len(scans[i].value) :
           a # b /\ scans[i].value[a].feature = scans[i].value[b].feature

\* a:b[1].c spelled out
PathExampleText == <<"a", ".", "b", "[", "1", "]", ".", "c">>

\* C6: the path of every Finding is the concatenation of its descent steps
\* (key, with a leading '.' unless the path so far is empty; '[index]' with the
\* zero-based index), and the spec's example tree yields the path a.b[1].c.
C6_PathIsConcatenationOfSteps ==
    IsMappingTable =>
        \A i \in Returns :
            LET found == scans[i].value
                occs == MatchedOccurrences(config_data, deprecated_features)
            IN /\ \A j \in 1..Len(found) : \E p \in occs :
                      /\ found[j].feature = KeyOf(config_data, p)
                      /\ found[j].path = PathOfSteps(config_data, p, Len(p))
               /\ \A p \in occs : \E j \in 1..Len(found) :
                      /\ found[j].feature = KeyOf(config_data, p)
                      /\ found[j].path = PathOfSteps(config_data, p, Len(p))
               /\ (config_data = PathExampleTree /\ <<"c">> \in TableKeys(deprecated_features))
                      => /\ Len(found) = 1
                         /\ found[1].feature = <<"c">>
                         /\ found[1].path = PathExampleText

\* the example tree scanned against a table that holds c, and a two-digit index
C6_Witness ==
    /\ IsMappingTable
    /\ scans # <<>>
    /\ \/ /\ config_data = PathExampleTree
          /\ scans[1].status = "returned"
          /\ Len(scans[1].value) = 1
          /\ scans[1].value[1].path = PathExampleText
       \/ /\ config_data = LongListTree
          /\ scans[1].status = "returned"
          /\ Len(scans[1].value) = 1
          /\ scans[1].value[1].path = <<"[", "1", "0", "]", ".", "c">>

\* C7 (as claimed): with a table whose root is not a mapping, every scan
\* returns, and returns no Findings.
C7_NonMappingNeverMatches ==
    ~IsMappingTable =>
        \A i \in 1..Len(scans) : scans[i].status = "returned" /\ scans[i].value = <<>>

\* C9: the Findings are those of the matched key occurrences listed in
\* depth-first pre-order (a key before its value's subtree, an entry's subtree
\* before later entries, element i before element j > i); with no match the
\* result is the empty sequence.
C9_PreOrder ==
    IsMappingTable =>
        \A i \in 1..Len(scans) :
            /\ scans[i].status = "returned"
            /\ LET order == InPreOrder(MatchedOccurrences(config_data, deprecated_features))
               IN scans[i].value =
                      [k \in 1..Len(order) |->
                           ExpectedFinding(config_data, deprecated_features, order[k])]

\* the positions p and q part at a sequence, p in the earlier element
PartAtSequence(tree, p, q) ==
    \E k \in 1..Len(p) :
        /\ k <= Len(q)
        /\ SubSeq(p, 1, k - 1) = SubSeq(q, 1, k - 1)
        /\ NodeAt(tree, SubSeq(p, 1, k - 1)).tag = "list"
        /\ p[k] < q[k]

\* the place of the Finding of occurrence p in a returned sequence
PlaceOf(found, tree, p) ==
    CHOOSE j \in 1..Len(found) : found[j].path = PathOfSteps(tree, p, Len(p))

\* one scan with all three orderings at work: a matched key with a matched key
\* below it and a matched entry after it, and Findings from two elements of
\* one sequence, those of the earlier element first
C9_Witness ==
    /\ IsMappingTable
    /\ config_data = SequenceOrderTree
    /\ \E i \in Returns :
          LET occs == MatchedOccurrences(config_data, deprecated_features)
              found == scans[i].value
          IN /\ Len(found) = 4
             /\ \E p, q, r \in occs :
                    /\ Len(p) < Len(q) /\ SubSeq(q, 1, Len(p)) = p
                    /\ Len(r) = Len(p) /\ Parent(r) = Parent(p) /\ p[Len(p)] < r[Len(r)]
                    /\ PlaceOf(found, config_data, p) < PlaceOf(found, config_data, q)
                    /\ PlaceOf(found, config_data, q) < PlaceOf(found, config_data, r)
             /\ \E p, q \in occs :
                    /\ PartAtSequence(config_data, p, q)
                    /\ PlaceOf(found, config_data, p) < PlaceOf(found, config_data, q)

PathsDistinct ==
    \A i \in Returns : \A a, b \in 1..Len(scans[i].value) :
        a # b => scans[i].value[a].path # scans[i].value[b].path

\* C10 (as claimed): two distinct key occurrences never get the same path,
\* whatever the keys.
C10_PathsIdentifyOccurrences == PathsDistinct

AllKeys(tree) == {KeyOf(tree, p) : p \in KeyOccurrences(tree)}

HasChar(key, c) == \E i \in 1..Len(key) : key[i] = c

\* no key holds '.' or '[', and the root mapping has no empty-string key
PlainKeys(tree) ==
    /\ \A k \in AllKeys(tree) : ~HasChar(k, ".") /\ ~HasChar(k, "[")
    /\ tree.tag = "dict" => \A i \in 1..Len(tree.entries) : tree.entries[i].key # <<>>

\* C10 (amended): with every mapping key a str, two distinct key occurrences
\* never get the same path when no key contains '.' or '[' and the root mapping
\* has no empty-string key.
C10_PathsIdentifyPlainKeys ==
    PlainKeys(config_data) => PathsDistinct

\* the positions p and q differ in one sequence index and nowhere else
DifferByIndexOnly(tree, p, q) ==
    /\ Len(p) = Len(q)
    /\ \E k \in 1..Len(p) :
           /\ p[k] # q[k]
           /\ NodeAt(tree, SubSeq(p, 1, k - 1)).tag = "list"
           /\ \A m \in 1..Len(p) : m # k => p[m] = q[m]

\* plain keys, an empty key below the root among them, and Findings for two
\* occurrences of one key that differ in a sequence index only
C10_Witness ==
    /\ PlainKeys(config_data)
    /\ <<>> \in AllKeys(config_data)
    /\ IsMappingTable
    /\ \E i \in Returns :
          /\ Len(scans[i].value) >= 3
          /\ \E p, q \in MatchedOccurrences(config_data, deprecated_features) :
                 /\ DifferByIndexOnly(config_data, p, q)
                 /\ \E a, b \in 1..Len(scans[i].value) :
                        /\ a # b
                        /\ scans[i].value[a].path = PathOfSteps(config_data, p, Len(p))
                        /\ scans[i].value[b].path = PathOfSteps(config_data, q, Len(q))

---------------------------------------------------------------------------
(* Claims about the process, checked under Spec *)

\* s spells the type name t, given in small ASCII letters, in some mix of
\* ASCII capitals (32 below the small letter) and small letters
Spells(s, t) ==
    /\ Len(s) = Len(t)
    /\ \A i \in 1..Len(t) : s[i] = t[i] \/ s[i] = t[i] - 32

DeclaredYaml == Spells(config_type, <<121, 97, 109, 108>>)
DeclaredJson == Spells(config_type, <<106, 115, 111, 110>>)

\* the configuration file exists, its type is supported, and its text does not
\* parse as that type
ConfigParseFails ==
    /\ config_file.exists
    /\ \/ DeclaredJson /\ config_file.syntax # "json"
       \/ DeclaredYaml /\ config_file.syntax = "bad"

ConfigLoadFails ==
    \/ ~config_file.exists
    \/ ~DeclaredYaml /\ ~DeclaredJson
    \/ ConfigParseFails

TableLoadFails ==
    \/ ~deprecated_features_file.exists
    \/ deprecated_features_file.syntax # "json"

FileMissing == ~config_file.exists \/ ~deprecated_features_file.exists

Logged(msg) == \E i \in 1..Len(log) : log[i].msg = msg

LoadFailureReported ==
    Logged("Failed to load configuration data or deprecated features.  Exiting.")

CleanReported == Logged("No deprecated features found in the configuration file.")

TableLoaded == pc \in {"init_config", "constructed", "ran", "crashed"} \/ results # <<>>
ConfigLoaded == pc \in {"constructed", "ran", "crashed"} \/ results # <<>>

\* C2 (as claimed): main ends with exit code 1 when a file is missing, before
\* any load and without the Matcher; otherwise with 2 exactly when Findings
\* were returned, and with 0 otherwise.
C2_ExitCodes ==
    (entry = "main" /\ pc \in {"exited", "crashed"}) =>
        IF FileMissing
        THEN /\ exit_code = 1
             /\ matcher_calls = 0
             /\ results = <<>>
             /\ deprecated_features = PyNone /\ config_data = PyNone
        ELSE /\ pc = "exited"
             /\ Len(results) = 1
             /\ results[1].status = "returned"
             /\ exit_code = IF results[1].value # <<>> THEN 2 ELSE 0

\* C3 (as claimed): when the configuration file exists and does not parse, the
\* load failure is reported, the Matcher is skipped, no Findings are returned,
\* and main does not exit with the clean status 0.
C3_ParseFailureIsFailure ==
    (entry = "main" /\ pc = "exited" /\ ~FileMissing /\ ConfigParseFails) =>
        /\ LoadFailureReported
        /\ matcher_calls = 0
        /\ results = <<Returned(<<>>)>>
        /\ exit_code # 0

\* C4: a failed load (file missing, type unsupported, text not parsing) leaves
\* None in the attribute and an error in the log, the constructor completing;
\* then run() does not call find_deprecated_features and returns the empty
\* list; the Matcher is called only after both loads succeeded.
C4_LoadFailureSkipsMatcher ==
    /\ (TableLoaded /\ TableLoadFails) =>
           /\ deprecated_features = PyNone
           /\ \/ Logged("Deprecated features file not found")
              \/ Logged("Error loading deprecated features file")
    /\ (ConfigLoaded /\ ConfigLoadFails) =>
           /\ config_data = PyNone
           /\ \/ Logged("Configuration file not found")
              \/ Logged("Unsupported configuration type")
              \/ Logged("Error loading configuration file")
    /\ (ConfigLoadFails \/ TableLoadFails) =>
           /\ matcher_calls = 0
           /\ \A i \in 1..Len(results) : results[i] = Returned(<<>>)
           /\ results # <<>> => LoadFailureReported
    /\ matcher_calls > 0 => ~ConfigLoadFails /\ ~TableLoadFails

\* run() returned after the configuration failed to parse while the table,
\* a non-empty mapping, loaded
C4_Witness ==
    /\ results # <<>>
    /\ matcher_calls = 0
    /\ ConfigParseFails
    /\ ~TableLoadFails
    /\ Truthy(deprecated_features)

\* C5 (as claimed): a load failure is reported only when a load failed; when
\* both loads succeeded and no Findings came back, the Matcher was called and
\* the clean summary was reported.
C5_LoadFailureOnlyWhenLoadFailed ==
    (results # <<>> /\ ~ConfigLoadFails /\ ~TableLoadFails
        /\ results[1] = Returned(<<>>)) =>
        /\ ~LoadFailureReported
        /\ matcher_calls > 0
        /\ CleanReported

====
